---- MODULE Spec2Model ----
(***************************************************************************)
(* Model of DownloadEngine (src/src/core.rs): size probing, resume         *)
(* location, chunk planning in u64 arithmetic, concurrent chunk workers    *)
(* writing through one shared file handle opened in create + append mode,  *)
(* and the fallback streamer.                                              *)
(***************************************************************************)
EXTENDS Integers, Sequences, FiniteSets, TLC

\* ---------------------------------------------------------------- bounds
\* Width of the unsigned integers of the model (u64 in the code, scaled).
U64Bits == 4
\* Largest length of the remote resource.
MaxSrcLen == 3
\* Largest length of a target file present before the first run.
MaxPreLen == 4
\* Largest chunk_size tried besides the largest unsigned value.
MaxChunkSize == 2
\* Largest number of chunk tasks the model lets one run spawn.
MaxTasks == 2
\* Largest number of bytes in one segment of a response stream.
MaxSeg == 2
\* Number of consecutive download calls on the same target.
MaxRuns == 2

\* ------------------------------------------------------------ arithmetic
U64Mod == 2 ^ U64Bits
U64Max == U64Mod - 1

\* The result of an arithmetic operation that panicked.
Poison == 0 - 1

\* a + b on u64: with overflow checks (debug profile) an overflow panics,
\* without them (release profile) it wraps.
Add(oc, a, b) ==
    IF a = Poison \/ b = Poison THEN Poison
    ELSE IF a + b > U64Max THEN (IF oc THEN Poison ELSE (a + b) % U64Mod)
    ELSE a + b

Sub(oc, a, b) ==
    IF a = Poison \/ b = Poison THEN Poison
    ELSE IF a < b THEN (IF oc THEN Poison ELSE (a - b + U64Mod) % U64Mod)
    ELSE a - b

Mul(oc, a, b) ==
    IF a = Poison \/ b = Poison THEN Poison
    ELSE IF a * b > U64Max THEN (IF oc THEN Poison ELSE (a * b) % U64Mod)
    ELSE a * b

Div(a, b) == IF a = Poison \/ b = Poison THEN Poison ELSE a \div b

Min(a, b) == IF a = Poison \/ b = Poison THEN Poison ELSE IF a < b THEN a ELSE b

\* --------------------------------------------------------------- planner
\* (total_size - existing_size + self.chunk_size - 1) / self.chunk_size
NumChunks(oc, total, existing, cs) ==
    Div(Sub(oc, Add(oc, Sub(oc, total, existing), cs), 1), cs)

\* existing_size + i * self.chunk_size
ChunkStart(oc, existing, i, cs) == Add(oc, existing, Mul(oc, i, cs))

\* (start + self.chunk_size - 1).min(total_size - 1)
ChunkEnd(oc, start, cs, total) ==
    Min(Sub(oc, Add(oc, start, cs), 1), Sub(oc, total, 1))

\* ------------------------------------------------------------------ files
\* The byte of the remote resource at offset o (0-based); never 0.
SourceByte(o) == o + 1
Source(n) == [k \in 1..n |-> SourceByte(k - 1)]
\* A byte that is not a byte of the resource.
Garbage == MaxSrcLen + 1

\* pwrite of data at offset pos: overwrites, extends, zero-fills a gap.
WriteAt(f, pos, data) ==
    LET newlen == IF pos + Len(data) > Len(f) THEN pos + Len(data) ELSE Len(f)
    IN [k \in 1..newlen |->
          IF k > pos /\ k <= pos + Len(data) THEN data[k - pos]
          ELSE IF k <= Len(f) THEN f[k] ELSE 0]

\* File::options().create(true).append(true)
SharedOpenOptions == [create |-> TRUE, append |-> TRUE, truncate |-> FALSE]
\* File::create without its truncate(true).
CreateKeepsContent == [create |-> TRUE, append |-> FALSE, truncate |-> FALSE]

\* File::create
CreateOpenOptions == [create |-> TRUE, append |-> FALSE, truncate |-> TRUE]

\* An open that truncates whatever the options say.
OpenContentTruncating(opts, f) == << >>

\* Content of the file right after open with the given options.
OpenContent(opts, f) == IF opts.truncate THEN << >> ELSE f

\* Offset at which a write on a handle lands: a handle opened in append
\* mode writes at the end of the file whatever its cursor is.
WriteOffset(opts, f, cur) == IF opts.append THEN Len(f) ELSE cur

\* write on a handle at cursor cur.
HandleWrite(opts, f, cur, data) == WriteAt(f, WriteOffset(opts, f, cur), data)

\* Body a server sends with 206 for `Range: bytes=start-end` of a resource
\* of n bytes.
RangeSatisfiable(start, end, n) == start <= end /\ start < n
RangeBody(start, end, n) ==
    IF RangeSatisfiable(start, end, n)
    THEN SubSeq(Source(n), start + 1, (IF end < n - 1 THEN end ELSE n - 1) + 1)
    ELSE << >>

\* ------------------------------------------------------------------ state
VARIABLES
    oc,            \* build profile: TRUE when integer overflow panics
    chunk_size,    \* DownloadEngine.chunk_size
    src_len,       \* length of the remote resource
    run,           \* number of the current call of download
    history,       \* one record per earlier call of download
    exists,        \* the target path exists
    file,          \* content of the target file
    exists0,       \* `exists` when the current call started
    file0,         \* `file` when the current call started
    pc,            \* position of download
    result,        \* value download returned: "none", "Ok", "Err"
    head,          \* outcome of the HEAD request of the prober
    probe_get,     \* outcome of the GET request of the prober
    total_size,
    existing_size,
    num_chunks,
    i,             \* loop variable of the spawn loop
    joined,        \* number of handles already awaited
    workers,       \* the chunk tasks
    lock,          \* owner of the AsyncMutex around the file, 0 when free
    cursor,        \* position of the shared handle
    progress,      \* ProgressBar position
    located,       \* get_existing_file_size was called in this call
    opened,        \* the shared append-mode handle was opened in this call
    fb_called,     \* download_fallback was called in this call
    fb_get,        \* outcome of the send of download_fallback's GET
    range_sent,    \* number of requests with a Range header sent in this call
    fb_body,       \* part of the fallback response body not yet received
    fb_received    \* segments of the fallback body received, concatenated

vars == << oc, chunk_size, src_len, run, history, exists, file, exists0, file0, pc,
           result, head, probe_get, total_size, existing_size, num_chunks, i,
           joined, workers, lock, cursor, progress, located, opened,
           fb_called, fb_get, range_sent, fb_body, fb_received >>

inputs == << oc, chunk_size, src_len, history >>
disk == << exists, file >>
start_of_run == << exists0, file0 >>
probe == << head, probe_get, total_size >>
ranged == << existing_size, num_chunks, i, joined, workers, lock, cursor,
             progress, located, opened, range_sent >>
fallback == << fb_called, fb_get, fb_body, fb_received >>

Tasks == 1..MaxTasks

IdleWorker == [st |-> "idle", start |-> 0, end |-> 0, status |-> 0,
               body |-> << >>, seg |-> << >>, downloaded |-> 0, offs |-> {},
               data |-> << >>]

Terminated(w) == workers[w].st \in {"ok", "failed"}

\* Files a target path may hold before the first call: a prefix of the
\* resource (padded when longer than the resource) or foreign bytes.
PreFiles ==
    { [k \in 1..n |-> IF k <= src_len THEN SourceByte(k - 1) ELSE Garbage] :
        n \in 0..MaxPreLen }
    \cup { [k \in 1..n |-> Garbage] : n \in 1..MaxPreLen }

ChunkSizes == (1..MaxChunkSize) \cup {U64Max}

FreshCall ==
    /\ pc = "probe_head"
    /\ result = "none"
    /\ head = "none"
    /\ probe_get = "none"
    /\ total_size = 0
    /\ existing_size = 0
    /\ num_chunks = 0
    /\ i = 0
    /\ joined = 0
    /\ workers = [w \in Tasks |-> IdleWorker]
    /\ lock = 0
    /\ cursor = 0
    /\ progress = 0
    /\ located = FALSE
    /\ opened = FALSE
    /\ fb_called = FALSE
    /\ fb_get = "none"
    /\ range_sent = 0
    /\ fb_body = << >>
    /\ fb_received = << >>

Init ==
    /\ oc \in BOOLEAN
    /\ chunk_size \in ChunkSizes
    /\ src_len \in 1..MaxSrcLen
    /\ run = 1
    /\ history = << >>
    /\ exists \in BOOLEAN
    /\ file \in (IF exists THEN PreFiles ELSE {<< >>})
    /\ exists0 = exists
    /\ file0 = file
    /\ FreshCall

\* --------------------------------------------------------- Size Prober
HeadOutcomes == {"err", "non2xx", "ok_nolen", "ok_len"}
GetOutcomes == {"err", "nolen", "len"}

\* The arm of the match on the HEAD response that is taken:
\* `Ok(resp) if resp.status().is_success()` or `_`.
HeadArm(h) == IF h \in {"ok_nolen", "ok_len"} THEN "success" ELSE "other"

\* get_content_length up to the HEAD response and the first match arm.
ProbeHead ==
    /\ pc = "probe_head"
    /\ \E h \in HeadOutcomes :
         /\ head' = h
         /\ IF HeadArm(h) = "success"
            THEN /\ total_size' = (IF h = "ok_len" THEN src_len ELSE 0)
                 /\ pc' = "branch"
            ELSE /\ total_size' = total_size
                 /\ pc' = "probe_get"
    /\ UNCHANGED << inputs, run, disk, start_of_run, result, probe_get,
                    ranged, fallback >>

\* The `_` arm: self.client.get(url).send().await? and its content length.
ProbeGet ==
    /\ pc = "probe_get"
    /\ \E g \in GetOutcomes :
         /\ probe_get' = g
         /\ IF g = "err"
            THEN /\ result' = "Err"
                 /\ pc' = "done"
                 /\ total_size' = total_size
            ELSE /\ result' = result
                 /\ pc' = "branch"
                 /\ total_size' = (IF g = "len" THEN src_len ELSE 0)
    /\ UNCHANGED << inputs, run, disk, start_of_run, head, ranged, fallback >>

\* ------------------------------------------------------------- download
\* The test of the probed size written as `total_size <= 1`.
UseFallbackOffByOne(total) == total <= 1

\* if total_size == 0 { return self.download_fallback(url, target).await; }
UseFallback(total) == total = 0

Branch ==
    /\ pc = "branch"
    /\ IF UseFallback(total_size)
       THEN /\ pc' = "fb_send"
            /\ fb_called' = TRUE
       ELSE /\ pc' = "locate"
            /\ fb_called' = fb_called
    /\ UNCHANGED << inputs, run, disk, start_of_run, result, probe, ranged,
                    fb_get, fb_body, fb_received >>

\* get_existing_file_size
ExistingFileSize(e, f) == IF e THEN Len(f) ELSE 0

\* let existing_size = Self::get_existing_file_size(target)?;
\* progress.set_position(existing_size);
Locate ==
    /\ pc = "locate"
    /\ located' = TRUE
    /\ \/ /\ existing_size' = ExistingFileSize(exists, file)
          /\ progress' = existing_size'
          /\ pc' = "open"
          /\ result' = result
       \/ /\ exists                      \* std::fs::metadata fails
          /\ UNCHANGED << existing_size, progress >>
          /\ pc' = "done"
          /\ result' = "Err"
    /\ UNCHANGED << inputs, run, disk, start_of_run, probe, num_chunks, i,
                    joined, workers, lock, cursor, opened, range_sent,
                    fallback >>

\* File::options().create(true).append(true).open(path)?
Open ==
    /\ pc = "open"
    /\ \/ /\ exists' = TRUE
          /\ file' = OpenContent(SharedOpenOptions, file)
          /\ opened' = TRUE
          /\ cursor' = 0
          /\ pc' = "plan"
          /\ result' = result
       \/ /\ UNCHANGED << disk, opened, cursor >>
          /\ pc' = "done"
          /\ result' = "Err"
    /\ UNCHANGED << inputs, run, start_of_run, probe, existing_size,
                    num_chunks, i, joined, workers, lock, progress, located,
                    range_sent, fallback >>

\* let num_chunks = ...; a panic of the arithmetic ends the call.
Plan ==
    /\ pc = "plan"
    /\ LET n == NumChunks(oc, total_size, existing_size, chunk_size)
       IN IF n = Poison
          THEN /\ pc' = "panic"
               /\ num_chunks' = num_chunks
          ELSE /\ pc' = "spawn"
               /\ num_chunks' = n
    /\ UNCHANGED << inputs, run, disk, start_of_run, result, probe,
                    existing_size, i, joined, workers, lock, cursor, progress,
                    located, opened, range_sent, fallback >>

\* One iteration of `for i in 0..num_chunks`: compute the range, spawn.
Spawn ==
    /\ pc = "spawn"
    /\ i < num_chunks
    /\ i < MaxTasks
    /\ LET start == ChunkStart(oc, existing_size, i, chunk_size)
           end == ChunkEnd(oc, start, chunk_size, total_size)
       IN IF start = Poison \/ end = Poison
          THEN /\ pc' = "panic"
               /\ UNCHANGED << i, workers >>
          ELSE /\ pc' = pc
               /\ i' = i + 1
               /\ workers' = [workers EXCEPT ![i + 1] =
                    [IdleWorker EXCEPT !.st = "send", !.start = start,
                                       !.end = end]]
    /\ UNCHANGED << inputs, run, disk, start_of_run, result, probe,
                    existing_size, num_chunks, joined, lock, cursor, progress,
                    located, opened, range_sent, fallback >>

\* The spawn loop is over.
SpawnDone ==
    /\ pc = "spawn"
    /\ i = num_chunks
    /\ pc' = "join"
    /\ UNCHANGED << inputs, run, disk, start_of_run, result, probe, ranged,
                    fallback >>

\* A join that stops waiting at the first failed task.
JoinShortCircuit ==
    /\ pc = "join"
    /\ joined < i
    /\ Terminated(joined + 1)
    /\ joined' = (IF workers[joined + 1].st = "failed" THEN i ELSE joined + 1)
    /\ UNCHANGED << inputs, run, disk, start_of_run, pc, result, probe,
                    existing_size, num_chunks, i, workers, lock, cursor,
                    progress, located, opened, range_sent, fallback >>

\* handle.await.ok() for the next handle: waits for that task.
Join ==
    /\ pc = "join"
    /\ joined < i
    /\ Terminated(joined + 1)
    /\ joined' = joined + 1
    /\ UNCHANGED << inputs, run, disk, start_of_run, pc, result, probe,
                    existing_size, num_chunks, i, workers, lock, cursor,
                    progress, located, opened, range_sent, fallback >>

\* A finalize that reports the failure of a worker.
FinalizePropagating ==
    /\ pc = "join"
    /\ joined = i
    /\ pc' = "done"
    /\ result' = (IF \E w \in 1..i : workers[w].st = "failed"
                  THEN "Err" ELSE "Ok")
    /\ UNCHANGED << inputs, run, disk, start_of_run, probe, ranged, fallback >>

\* progress.finish_with_message(..); Ok(())
Finalize ==
    /\ pc = "join"
    /\ joined = i
    /\ pc' = "done"
    /\ result' = "Ok"
    /\ UNCHANGED << inputs, run, disk, start_of_run, probe, ranged, fallback >>

\* --------------------------------------------------------- Chunk Worker
WorkerFrame == << inputs, run, start_of_run, pc, result, probe,
                  existing_size, num_chunks, i, joined, located, opened,
                  fallback >>

Fail(w) == [workers[w] EXCEPT !.st = "failed", !.body = << >>, !.seg = << >>]

\* client.get(&url).header("Range", ..).send().await and the status check.
WSend(w) ==
    /\ workers[w].st = "send"
    /\ range_sent' = range_sent + 1
    /\ \/ workers' = [workers EXCEPT ![w] = Fail(w)]
       \/ workers' = [workers EXCEPT ![w] = [Fail(w) EXCEPT !.status = 404]]
       \/ /\ RangeSatisfiable(workers[w].start, workers[w].end, src_len)
          /\ workers' = [workers EXCEPT ![w] =
               [@ EXCEPT !.st = "stream", !.status = 206,
                         !.body = RangeBody(workers[w].start,
                                           workers[w].end, src_len)]]
       \/ workers' = [workers EXCEPT ![w] =
               [@ EXCEPT !.st = "stream", !.status = 200,
                         !.body = Source(src_len)]]
    /\ UNCHANGED << WorkerFrame, disk, lock, cursor, progress >>

\* stream.next().await yields Some(Ok(chunk)).
WRecv(w) ==
    /\ workers[w].st = "stream"
    /\ workers[w].body # << >>
    /\ \E k \in 1..MaxSeg :
         /\ k <= Len(workers[w].body)
         /\ workers' = [workers EXCEPT ![w] =
              [@ EXCEPT !.st = "lockwait",
                        !.seg = SubSeq(workers[w].body, 1, k),
                        !.body = SubSeq(@, k + 1, Len(@))]]
    /\ UNCHANGED << WorkerFrame, disk, lock, cursor, progress, range_sent >>

\* stream.next().await yields Some(Err(e)): return None.
WStreamErr(w) ==
    /\ workers[w].st = "stream"
    /\ workers' = [workers EXCEPT ![w] = Fail(w)]
    /\ UNCHANGED << WorkerFrame, disk, lock, cursor, progress, range_sent >>

\* stream.next().await yields None: Some(()).
WStreamEnd(w) ==
    /\ workers[w].st = "stream"
    /\ workers[w].body = << >>
    /\ workers' = [workers EXCEPT ![w].st = "ok"]
    /\ UNCHANGED << WorkerFrame, disk, lock, cursor, progress, range_sent >>

\* A lock that is taken without waiting for its holder.
WLockNoWait(w) ==
    /\ workers[w].st = "lockwait"
    /\ lock' = w
    /\ workers' = [workers EXCEPT ![w].st = "locked"]
    /\ UNCHANGED << WorkerFrame, disk, cursor, progress, range_sent >>

\* file.lock().await
WLock(w) ==
    /\ workers[w].st = "lockwait"
    /\ lock = 0
    /\ lock' = w
    /\ workers' = [workers EXCEPT ![w].st = "locked"]
    /\ UNCHANGED << WorkerFrame, disk, cursor, progress, range_sent >>

\* SeekFrom::Start(start + downloaded)
SeekTarget(start, downloaded) == Add(oc, start, downloaded)

\* file_lock.seek(..).ok()?  A failed seek, or a panic of the addition,
\* ends the task and drops the guard.
WSeek(w) ==
    /\ workers[w].st = "locked"
    /\ LET t == SeekTarget(workers[w].start, workers[w].downloaded)
       IN \/ /\ t # Poison
             /\ cursor' = t
             /\ workers' = [workers EXCEPT ![w].st = "seeked"]
             /\ lock' = lock
          \/ /\ cursor' = cursor
             /\ workers' = [workers EXCEPT ![w] = Fail(w)]
             /\ lock' = 0
    /\ UNCHANGED << WorkerFrame, disk, progress, range_sent >>

\* The write with a guard that lives across the loop iterations.
WWriteKeepsLock(w) ==
    /\ workers[w].st = "seeked"
    /\ LET seg == workers[w].seg
           at == WriteOffset(SharedOpenOptions, file, cursor)
       IN /\ file' = HandleWrite(SharedOpenOptions, file, cursor, seg)
          /\ cursor' = at + Len(seg)
          /\ workers' = [workers EXCEPT ![w] =
               [@ EXCEPT !.st = "stream", !.seg = << >>,
                         !.downloaded = @ + Len(seg),
                         !.offs = @ \cup (at..(at + Len(seg) - 1)),
                         !.data = @ \o seg]]
          /\ progress' = progress + Len(seg)
    /\ lock' = lock
    /\ UNCHANGED << WorkerFrame, exists, range_sent >>

\* file_lock.write_all(&chunk).ok()?; downloaded += ..; progress.inc(..);
\* the guard is dropped at the end of the loop body.
WWrite(w) ==
    /\ workers[w].st = "seeked"
    /\ LET seg == workers[w].seg
           at == WriteOffset(SharedOpenOptions, file, cursor)
       IN /\ file' = HandleWrite(SharedOpenOptions, file, cursor, seg)
          /\ cursor' = at + Len(seg)
          /\ workers' = [workers EXCEPT ![w] =
               [@ EXCEPT !.st = "stream", !.seg = << >>,
                         !.downloaded = @ + Len(seg),
                         !.offs = @ \cup (at..(at + Len(seg) - 1)),
                         !.data = @ \o seg]]
          /\ progress' = progress + Len(seg)
    /\ lock' = 0
    /\ UNCHANGED << WorkerFrame, exists, range_sent >>

\* The failing write with a guard that is not dropped on return.
WWriteErrKeepsLock(w) ==
    /\ workers[w].st = "seeked"
    /\ \E j \in 0..(Len(workers[w].seg) - 1) :
         LET part == SubSeq(workers[w].seg, 1, j)
             at == WriteOffset(SharedOpenOptions, file, cursor)
         IN /\ file' = HandleWrite(SharedOpenOptions, file, cursor, part)
            /\ cursor' = at + j
            /\ workers' = [workers EXCEPT ![w] =
                 [Fail(w) EXCEPT !.offs = @ \cup (at..(at + j - 1)),
                                 !.data = @ \o part]]
    /\ lock' = lock
    /\ UNCHANGED << WorkerFrame, exists, progress, range_sent >>

\* write_all fails after j bytes of the segment: return None.
WWriteErr(w) ==
    /\ workers[w].st = "seeked"
    /\ \E j \in 0..(Len(workers[w].seg) - 1) :
         LET part == SubSeq(workers[w].seg, 1, j)
             at == WriteOffset(SharedOpenOptions, file, cursor)
         IN /\ file' = HandleWrite(SharedOpenOptions, file, cursor, part)
            /\ cursor' = at + j
            /\ workers' = [workers EXCEPT ![w] =
                 [Fail(w) EXCEPT !.offs = @ \cup (at..(at + j - 1)),
                                 !.data = @ \o part]]
    /\ lock' = 0
    /\ UNCHANGED << WorkerFrame, exists, progress, range_sent >>

Worker(w) ==
    \/ WSend(w) \/ WRecv(w) \/ WStreamErr(w) \/ WStreamEnd(w)
    \/ WLock(w) \/ WSeek(w) \/ WWrite(w) \/ WWriteErr(w)

\* ---------------------------------------------------- Fallback Streamer
\* The GET sent after File::create(target) instead of before it.
FbSendCreatesFirst ==
    /\ pc = "fb_send"
    /\ exists' = TRUE
    /\ file' = OpenContent(CreateOpenOptions, file)
    /\ \/ /\ pc' = "fb_create"
          /\ fb_get' = "ok"
          /\ fb_body' = Source(src_len)
          /\ result' = result
       \/ /\ pc' = "done"
          /\ fb_get' = "err"
          /\ fb_body' = fb_body
          /\ result' = "Err"
    /\ UNCHANGED << inputs, run, start_of_run, probe, ranged,
                    fb_called, fb_received >>

\* let response = self.client.get(url).send().await?;
FbSend ==
    /\ pc = "fb_send"
    /\ \/ /\ pc' = "fb_create"
          /\ fb_get' = "ok"
          /\ fb_body' = Source(src_len)
          /\ result' = result
       \/ /\ pc' = "done"
          /\ fb_get' = "err"
          /\ fb_body' = fb_body
          /\ result' = "Err"
    /\ UNCHANGED << inputs, run, disk, start_of_run, probe, ranged,
                    fb_called, fb_received >>

\* let mut file = File::create(target)?;
FbCreate ==
    /\ pc = "fb_create"
    /\ \/ /\ exists' = TRUE
          /\ file' = OpenContent(CreateOpenOptions, file)
          /\ pc' = "fb_stream"
          /\ result' = result
       \/ /\ UNCHANGED disk
          /\ pc' = "done"
          /\ result' = "Err"
    /\ UNCHANGED << inputs, run, start_of_run, probe, ranged, fallback >>

\* One segment of the body: let chunk = chunk?; file.write_all(&chunk)?;
FbRecv ==
    /\ pc = "fb_stream"
    /\ fb_body # << >>
    /\ \E k \in 1..MaxSeg :
         /\ k <= Len(fb_body)
         /\ LET seg == SubSeq(fb_body, 1, k)
            IN /\ fb_body' = SubSeq(fb_body, k + 1, Len(fb_body))
               /\ fb_received' = fb_received \o seg
               /\ \/ /\ file' = HandleWrite(CreateOpenOptions, file,
                                            Len(fb_received), seg)
                     /\ UNCHANGED << pc, result >>
                  \/ \E j \in 0..(k - 1) :
                       /\ file' = HandleWrite(CreateOpenOptions, file,
                                     Len(fb_received), SubSeq(seg, 1, j))
                       /\ pc' = "done"
                       /\ result' = "Err"
    /\ UNCHANGED << inputs, run, exists, start_of_run, probe, ranged,
                    fb_called, fb_get >>

\* The stream yields an error: chunk? returns it.
FbStreamErr ==
    /\ pc = "fb_stream"
    /\ pc' = "done"
    /\ result' = "Err"
    /\ UNCHANGED << inputs, run, disk, start_of_run, probe, ranged, fallback >>

\* The stream ends: Ok(())
FbEnd ==
    /\ pc = "fb_stream"
    /\ fb_body = << >>
    /\ pc' = "done"
    /\ result' = "Ok"
    /\ UNCHANGED << inputs, run, disk, start_of_run, probe, ranged, fallback >>

\* ----------------------------------------------------------- next call
\* download is called again on the same url and target once the previous
\* call and its tasks are over.
Rerun ==
    /\ pc = "done"
    /\ run < MaxRuns
    /\ \A w \in Tasks : workers[w].st = "idle" \/ Terminated(w)
    /\ run' = run + 1
    /\ history' = Append(history, [opened |-> opened, result |-> result,
                                   exists0 |-> exists0, file0 |-> file0])
    /\ exists0' = exists
    /\ file0' = file
    /\ pc' = "probe_head"
    /\ result' = "none"
    /\ head' = "none"
    /\ probe_get' = "none"
    /\ total_size' = 0
    /\ existing_size' = 0
    /\ num_chunks' = 0
    /\ i' = 0
    /\ joined' = 0
    /\ workers' = [w \in Tasks |-> IdleWorker]
    /\ lock' = 0
    /\ cursor' = 0
    /\ progress' = 0
    /\ located' = FALSE
    /\ opened' = FALSE
    /\ fb_called' = FALSE
    /\ fb_get' = "none"
    /\ range_sent' = 0
    /\ fb_body' = << >>
    /\ fb_received' = << >>
    /\ UNCHANGED << oc, chunk_size, src_len, disk >>

Next ==
    \/ ProbeHead \/ ProbeGet \/ Branch \/ Locate \/ Open \/ Plan
    \/ Spawn \/ SpawnDone \/ Join \/ Finalize
    \/ \E w \in Tasks : Worker(w)
    \/ FbSend \/ FbCreate \/ FbRecv \/ FbStreamErr \/ FbEnd

\* One call of download.
Spec == Init /\ [][Next]_vars

\* Consecutive calls of download on the same url and target.
NextResume == Next \/ Rerun

SpecResume == Init /\ [][NextResume]_vars

\* The steps of the task that runs download itself.
DownloadStep ==
    \/ ProbeHead \/ ProbeGet \/ Branch \/ Locate \/ Open \/ Plan
    \/ Spawn \/ SpawnDone \/ Join \/ Finalize
    \/ FbSend \/ FbCreate \/ FbRecv \/ FbStreamErr \/ FbEnd

\* One call of download on a runtime that schedules every task that can
\* run, with requests and streams that complete or fail, and a file lock
\* that serves every waiter (tokio's Mutex is fair): a worker that waits
\* for the lock gets it if the lock is free again and again.
SpecFair ==
    /\ Init
    /\ [][Next]_vars
    /\ WF_vars(DownloadStep)
    /\ \A w \in Tasks : WF_vars(Worker(w)) /\ SF_vars(WLock(w))

\* ------------------------------------------- the binary (src/main.rs)
\* The binary does not use DownloadEngine. Its model shares the variables
\* of the target file and of the response stream: `total_size` holds
\* download_size, `progress` holds downloaded, `fb_get` the outcome of the
\* GET, `fb_body` and `fb_received` the stream, and `result` the way the
\* process ended: "exit0", "exit1" or "panic".
unused_by_main == << oc, chunk_size, run, history, head, probe_get,
                     existing_size, num_chunks, i, joined, workers, lock,
                     cursor, located, opened, fb_called, range_sent >>

InitMain ==
    /\ oc = FALSE
    /\ chunk_size = 1
    /\ src_len \in 1..MaxSrcLen
    /\ run = 1
    /\ history = << >>
    /\ exists \in BOOLEAN
    /\ file \in (IF exists THEN PreFiles ELSE {<< >>})
    /\ exists0 = exists
    /\ file0 = file
    /\ pc = "m_send"
    /\ result = "none"
    /\ head = "none"
    /\ probe_get = "none"
    /\ total_size = 0
    /\ existing_size = 0
    /\ num_chunks = 0
    /\ i = 0
    /\ joined = 0
    /\ workers = [w \in Tasks |-> IdleWorker]
    /\ lock = 0
    /\ cursor = 0
    /\ progress = 0
    /\ located = FALSE
    /\ opened = FALSE
    /\ fb_called = FALSE
    /\ fb_get = "none"
    /\ range_sent = 0
    /\ fb_body = << >>
    /\ fb_received = << >>

\* let req = client.get(url).send().await.expect(..);
\* let download_size = req.content_length().unwrap_or_default();
MSend ==
    /\ pc = "m_send"
    /\ \/ /\ fb_get' = "ok"
          /\ fb_body' = Source(src_len)
          /\ total_size' \in {src_len, 0}
          /\ pc' = "m_create"
          /\ result' = result
       \/ /\ fb_get' = "err"
          /\ UNCHANGED << fb_body, total_size >>
          /\ pc' = "done"
          /\ result' = "panic"
    /\ UNCHANGED << unused_by_main, src_len, disk, start_of_run, progress,
                    fb_received >>

\* A create_file that never looks at the path.
RefuseNever(e) == FALSE

\* create_file: if path.exists() { println!(..); exit(1) }
RefuseExisting(e) == e

\* let mut file = create_file(target);
MCreateFile ==
    /\ pc = "m_create"
    /\ IF RefuseExisting(exists)
       THEN /\ pc' = "done"
            /\ result' = "exit1"
            /\ UNCHANGED disk
       ELSE \/ /\ exists' = TRUE
               /\ file' = OpenContent(CreateOpenOptions, file)
               /\ pc' = "m_stream"
               /\ result' = result
            \/ /\ UNCHANGED disk        \* File::create(..).expect(..)
               /\ pc' = "done"
               /\ result' = "panic"
    /\ UNCHANGED << unused_by_main, src_len, start_of_run, total_size,
                    progress, fb_get, fb_body, fb_received >>

\* One item of the stream: file.write(&chunk) writes the first j bytes of
\* the chunk; downloaded = min(downloaded + chunk.len(), download_size).
MRecv ==
    /\ pc = "m_stream"
    /\ fb_body # << >>
    /\ \E k \in 1..MaxSeg :
         /\ k <= Len(fb_body)
         /\ LET seg == SubSeq(fb_body, 1, k)
            IN /\ fb_body' = SubSeq(fb_body, k + 1, Len(fb_body))
               /\ fb_received' = fb_received \o seg
               /\ \/ \E j \in 1..k :
                       /\ file' = HandleWrite(CreateOpenOptions, file,
                                              Len(file), SubSeq(seg, 1, j))
                       /\ progress' = Min(progress + k, total_size)
                       /\ UNCHANGED << pc, result >>
                  \/ /\ file' = file    \* file.write(..).expect(..)
                     /\ progress' = progress
                     /\ pc' = "done"
                     /\ result' = "panic"
    /\ UNCHANGED << unused_by_main, src_len, exists, start_of_run,
                    total_size, fb_get >>

\* item.expect("Error while downloading file")
MStreamErr ==
    /\ pc = "m_stream"
    /\ pc' = "done"
    /\ result' = "panic"
    /\ UNCHANGED << unused_by_main, src_len, disk, start_of_run, total_size,
                    progress, fb_get, fb_body, fb_received >>

\* The stream ends: progress.finish_with_message(..); main returns.
MEnd ==
    /\ pc = "m_stream"
    /\ fb_body = << >>
    /\ pc' = "done"
    /\ result' = "exit0"
    /\ UNCHANGED << unused_by_main, src_len, disk, start_of_run, total_size,
                    progress, fb_get, fb_body, fb_received >>

NextMain == MSend \/ MCreateFile \/ MRecv \/ MStreamErr \/ MEnd

SpecMain == InitMain /\ [][NextMain]_vars

\* ---------------------------------------------------------- properties
ProbeOver == pc \notin {"probe_head", "probe_get"}

\* download returned an error out of the Size Prober.
ProbeRaised ==
    pc = "done" /\ result = "Err" /\ ~fb_called /\ ~located

\* The ranged path of this call got past the Chunk Planner.
Planned == opened /\ pc # "plan"

\* The workers spawned in this call.
Spawned == 1..i

IsSourcePrefix(f) ==
    /\ Len(f) <= src_len
    /\ \A k \in 1..Len(f) : f[k] = SourceByte(k - 1)

CeilDiv(a, b) == (a + b - 1) \div b

\* Every spawned worker got 206 with the bytes of its range and ended
\* with Some(()).
AllWorkersSucceeded ==
    \A w \in Spawned : workers[w].st = "ok" /\ workers[w].status = 206

\* C1: in a ranged call that starts from a correct prefix shorter than the
\* resource and spawns its chunk workers, if every worker gets 206 with
\* exactly its range and nothing fails, then on return the target file is
\* the resource: same length, same byte at every offset.
C1_RangedEndToEnd ==
    ( /\ pc = "done"
      /\ result = "Ok"
      /\ opened
      /\ total_size > 0
      /\ existing_size < total_size
      /\ IsSourcePrefix(file0)
      /\ i >= 1
      /\ AllWorkersSucceeded )
    => file = Source(total_size)

\* The ranges the spawn loop computes for the inputs of this call.
PlannedCount == NumChunks(oc, total_size, existing_size, chunk_size)
PlannedStart(k) == ChunkStart(oc, existing_size, k, chunk_size)
PlannedEnd(k) == ChunkEnd(oc, PlannedStart(k), chunk_size, total_size)

\* C2: for total_size > existing_bytes >= 0 and chunk_size > 0 the planned
\* ranges number ceil((total_size - existing_bytes) / chunk_size), start at
\* existing_bytes, are ascending and contiguous, each has start <= end, and
\* the last one ends at total_size - 1.
C2_ChunkPlanning ==
    (pc = "plan" /\ existing_size < total_size)
    => /\ PlannedCount # Poison
       /\ PlannedCount = CeilDiv(total_size - existing_size, chunk_size)
       /\ \A k \in 0..(PlannedCount - 1) :
            /\ PlannedStart(k) # Poison
            /\ PlannedEnd(k) # Poison
            /\ PlannedStart(k) <= PlannedEnd(k)
            /\ PlannedStart(k) = (IF k = 0 THEN existing_size
                                  ELSE PlannedEnd(k - 1) + 1)
            /\ (k = PlannedCount - 1 => PlannedEnd(k) = total_size - 1)

\* C3: when existing_bytes >= total_size the plan is empty: no worker is
\* spawned, no ranged request is sent, the file is not written and the
\* call ends with Ok.
C3_AlreadyComplete ==
    (Planned /\ existing_size >= total_size)
    => /\ pc # "panic"
       /\ num_chunks = 0
       /\ i = 0
       /\ range_sent = 0
       /\ file = file0
       /\ (pc = "done" => result = "Ok")

\* C4: in every state of a ranged call the bytes at offsets
\* [0, existing_bytes) are those the file held when the call started, and
\* no worker write landed below existing_bytes.
C4_PrefixPreserved ==
    located
    => /\ Len(file) >= Len(file0)
       /\ \A k \in 1..Len(file0) : file[k] = file0[k]
       /\ \A w \in Tasks : \A o \in workers[w].offs : o >= existing_size

\* A resumed call in which one worker got the full body with 200 and
\* wrote, and another worker failed.
C4_Witness ==
    /\ existing_size > 0
    /\ \E w \in Tasks : workers[w].status = 200 /\ workers[w].offs # {}
    /\ \E w \in Tasks : workers[w].st = "failed"

\* C5: whenever the HEAD request yields no length (send failed, status not
\* 2xx, or 2xx without content-length) the prober issues a GET, and a
\* content-length of that GET is the value returned.
C5_GetFallback ==
    (ProbeOver /\ head # "ok_len")
    => /\ probe_get # "none"
       /\ (probe_get = "len" => total_size = src_len)

\* C6: download never returns an error out of the Size Prober; a probing
\* failure degrades to total_size = 0.
C6_ProberNeverRaises == ~ProbeRaised

\* C7: a call runs either the Fallback Streamer or the ranged path, never
\* both: with total_size = 0 the Resume Locator is not consulted, the
\* shared file is not opened, no worker is spawned and no Range request is
\* sent; with total_size > 0 download_fallback is never called.
C7_ModeExclusive ==
    /\ fb_called => (~located /\ ~opened /\ i = 0 /\ range_sent = 0
                     /\ \A w \in Tasks : workers[w].st = "idle")
    /\ fb_called => total_size = 0
    /\ located => total_size > 0
    /\ (ProbeOver /\ pc \notin {"branch", "locate"} /\ ~ProbeRaised)
       => (fb_called <=> total_size = 0) /\ (located <=> total_size > 0)

\* A fallback call that ended with Ok on a target that held bytes before.
C7_Witness ==
    /\ fb_called
    /\ pc = "done"
    /\ result = "Ok"
    /\ exists0
    /\ Len(file0) > 0

FirstRunRanged ==
    /\ run = 2
    /\ history[1].opened
    /\ history[1].result = "Ok"
    /\ IsSourcePrefix(history[1].file0)

\* C9: in the second of two ranged calls every offset below existing_bytes
\* holds the byte of the resource at that offset, so if every worker of
\* the second call succeeds with 206 the file equals the resource.
C9_ResumeSkipsWritten ==
    /\ (FirstRunRanged /\ located /\ pc # "locate" /\ result # "Err")
       => /\ existing_size <= src_len
          /\ \A k \in 1..existing_size : file0[k] = SourceByte(k - 1)
    /\ (FirstRunRanged /\ opened /\ pc = "done" /\ i >= 1
          /\ AllWorkersSucceeded)
       => file = Source(src_len)

\* C10: while download_fallback streams, and when it returns Ok, the
\* target file is exactly the received segments concatenated from byte 0,
\* whatever the target held before; on Ok that is the whole body.
C10_FallbackResult ==
    /\ (fb_called /\ (pc = "fb_stream" \/ (pc = "done" /\ result = "Ok")))
       => exists /\ file = fb_received
    /\ (fb_called /\ pc = "done" /\ result = "Ok")
       => file = Source(src_len)

\* download_fallback returned Ok on a target that held more bytes than the
\* body has.
C10_Witness ==
    /\ fb_called
    /\ pc = "done"
    /\ result = "Ok"
    /\ exists0
    /\ Len(file0) > src_len
    /\ Len(fb_received) = src_len

\* C11: if the GET of download_fallback cannot be sent, download returns
\* an error and the target is as it was when the call started: not
\* created, not truncated.
C11_FallbackSendFailure ==
    fb_get = "err"
    => /\ pc = "done"
       /\ result = "Err"
       /\ exists = exists0
       /\ file = file0

\* The GET of download_fallback failed on a target that held bytes.
C11_Witness ==
    /\ fb_called
    /\ fb_get = "err"
    /\ exists0
    /\ Len(file0) > 0

\* C12: if the target path exists when download_file runs, the process
\* ends with a non-zero status and the file keeps its content and length;
\* a target is created and written only when the path did not exist.
C12_RefuseIfExists ==
    /\ exists0
       => /\ exists
          /\ file = file0
          /\ pc # "m_stream"
          /\ (pc = "done" => result \in {"exit1", "panic"})
          /\ (pc = "done" /\ fb_get = "ok" => result = "exit1")
    /\ (file # file0 \/ exists # exists0) => ~exists0

\* The GET succeeded, the target held bytes, and the process exited with 1.
C12_Witness ==
    /\ exists0
    /\ Len(file0) > 0
    /\ fb_get = "ok"
    /\ pc = "done"
    /\ result = "exit1"

\* C13: download finalizes only after every spawned worker has ended,
\* whether with Some(()) or None; handles are awaited in spawn order and a
\* failed worker does not cut the waiting short.
C13_JoinAllBeforeFinalize ==
    /\ joined <= i
    /\ \A w \in 1..joined : Terminated(w)
    /\ (opened /\ pc = "done")
       => /\ joined = i
          /\ \A w \in Tasks : workers[w].st = "idle" \/ Terminated(w)
          /\ lock = 0

\* A call that returned after its first worker failed and its second
\* worker wrote its whole body.
C13_Witness ==
    /\ opened
    /\ pc = "done"
    /\ i = 2
    /\ workers[1].st = "failed"
    /\ workers[2].st = "ok"
    /\ workers[2].data # << >>

\* The body of the response a worker accepted.
ResponseBody(w) ==
    IF workers[w].status = 206
    THEN RangeBody(workers[w].start, workers[w].end, src_len)
    ELSE IF workers[w].status = 200 THEN Source(src_len) ELSE << >>

IsPrefix(a, b) == Len(a) <= Len(b) /\ a = SubSeq(b, 1, Len(a))

\* C14: a worker that ended never holds the file lock, so no sibling
\* waits for it forever; and what a worker writes is decided by its own
\* response alone: always a prefix of its body, and the whole body once it
\* ends with Some(()), whatever happened to the other workers.
C14_NoCancellation ==
    /\ \A w \in Tasks : Terminated(w) => lock # w
    /\ \A w \in Tasks : IsPrefix(workers[w].data, ResponseBody(w))
    /\ \A w \in Tasks : workers[w].st = "ok" => workers[w].data = ResponseBody(w)

\* One worker failed inside its critical section, after a part of its
\* segment was written, and another worker ended with its whole body
\* written.
C14_Witness ==
    \E w, v \in Tasks :
      /\ w # v
      /\ workers[w].st = "failed"
      /\ Len(workers[w].data) > workers[w].downloaded
      /\ workers[v].st = "ok"
      /\ workers[v].data # << >>

\* C15: a worker between its lock and the end of its write is the one
\* holder of the lock, and the handle's position at its write is the one
\* its own seek set: no other seek or write comes in between.
C15_MutualExclusion ==
    /\ \A w \in Tasks : workers[w].st \in {"locked", "seeked"} => lock = w
    /\ \A w, v \in Tasks :
         ( /\ workers[w].st \in {"locked", "seeked"}
           /\ workers[v].st \in {"locked", "seeked"} ) => w = v
    /\ \A w \in Tasks :
         workers[w].st = "seeked"
         => cursor = SeekTarget(workers[w].start, workers[w].downloaded)

\* One worker has done its seek and another one waits for the lock.
C15_Witness ==
    \E w, v \in Tasks :
      /\ workers[w].st = "seeked"
      /\ workers[v].st = "lockwait"

\* C16: a worker that awaits the send of its request or the next segment
\* of its stream does not hold the lock; the lock is held only with a
\* received segment in hand, and a worker that returned early has
\* released it.
C16_LockNotAcrossNetwork ==
    /\ \A w \in Tasks : workers[w].st \in {"send", "stream"} => lock # w
    /\ \A w \in Tasks : workers[w].st = "failed" => lock # w
    /\ lock # 0 => workers[lock].seg # << >>

\* A worker awaits its next segment after a write of its own while
\* another worker holds the lock.
C16_Witness ==
    \E w, v \in Tasks :
      /\ workers[w].st = "stream"
      /\ workers[w].downloaded > 0
      /\ workers[w].body # << >>
      /\ lock = v
      /\ v # w

\* The ranged path of this call started from a file shorter than the
\* resource.
ResumableStart == located /\ existing_size < total_size

\* C17: the bytes a worker has written lie, in the order received, at the
\* offsets start, start + 1, ... of the file: each segment lands at start
\* plus the number of bytes the worker wrote before it, however the writes
\* of the other workers interleave.
C17_PerWorkerOffsets ==
    ResumableStart
    => \A w \in Tasks :
         workers[w].offs =
           { workers[w].start + k : k \in 0..(Len(workers[w].data) - 1) }

\* C18: every byte a worker with an accepted response (206 or 200) writes
\* lands inside its range [start, end]; no offset is written by two
\* workers and none at or beyond total_size.
C18_WithinOwnRange ==
    ResumableStart
    => /\ \A w \in Tasks :
            workers[w].status \in {200, 206}
            => \A o \in workers[w].offs :
                 /\ workers[w].start <= o
                 /\ o <= workers[w].end
                 /\ o < total_size
       /\ \A w, v \in Tasks :
            w # v => workers[w].offs \cap workers[v].offs = {}

\* The offsets the workers of this call have written.
WrittenOffsets == UNION { workers[w].offs : w \in Tasks }

\* No write_all of this call failed after a part of its segment.
NoTornWrite ==
    \A w \in Tasks : Len(workers[w].data) = workers[w].downloaded

\* C19: in a ranged call that starts from a file not longer than the
\* resource, and as long as no write fails half way, the progress position
\* is existing_bytes plus the number of distinct offsets written so far,
\* and never exceeds total_size.
C19_ProgressAccounting ==
    (located /\ pc # "locate" /\ result # "Err"
       /\ existing_size <= total_size /\ NoTornWrite)
    => /\ progress = existing_size + Cardinality(WrittenOffsets)
       /\ progress >= existing_size
       /\ progress <= total_size

\* The spawn loop stands at the bound MaxTasks with ranges left to spawn:
\* the runs the model cuts short.
SpawnBounded == pc = "spawn" /\ i = MaxTasks /\ i < num_chunks

\* Under the same fairness every call returns, panics or is cut by the
\* bound: nothing else keeps download from its end.
ReturnsOrPanics == <>(pc \in {"done", "panic"} \/ SpawnBounded)

\* Under the same fairness no worker waits for the file lock forever.
LockWaitEnds ==
    \A w \in Tasks :
      (workers[w].st = "lockwait") ~> (workers[w].st # "lockwait")

\* C20: under fair scheduling, with requests and streams that complete or
\* fail, every call of download eventually returns (pc = "done"), runs cut
\* by the bound on the tasks aside.
C20_EventuallyReturns == <>(pc = "done" \/ SpawnBounded)

====
